---- MODULE Spec2Model ----
(***************************************************************************)
(* Alexandria - prospecting dashboard over the ANEEL CKAN DataStore.       *)
(*                                                                         *)
(* Two programs are modelled:                                              *)
(*   - app.py        : paged search (ckan_search, probe_columns, pick,     *)
(*                     to_num, potencia_label, calc_score, enrich_base,    *)
(*                     fetch_top and the module-level script);             *)
(*   - "app old.py"  : SQL mode (ckan_sql, normalize_df, add_derived,      *)
(*                     fetch_dataset and the module-level script).         *)
(*                                                                         *)
(* Values.  A cell of a data frame is a tagged record:                     *)
(*   None       Python None / JSON null                                    *)
(*   NaN        float("nan"), what errors="coerce" produces                *)
(*   Txt(s)     a text, s a sequence of one-character strings              *)
(*   Num(m, e)  the decimal number m / 10^e, kept canonical (no trailing   *)
(*              fractional zero), so that equal numbers are equal values   *)
(***************************************************************************)
EXTENDS Integers, Sequences, FiniteSets, TLC

None == [k |-> "none"]
NaN == [k |-> "nan"]
Txt(s) == [k |-> "str", s |-> s]

RECURSIVE Pow10(_)
Pow10(n) == IF n = 0 THEN 1 ELSE 10 * Pow10(n - 1)

RECURSIVE Canon(_, _)
Canon(m, e) ==
    IF e > 0 /\ m % 10 = 0 THEN Canon(m \div 10, e - 1)
    ELSE [k |-> "num", m |-> m, e |-> e]

Num(m, e) == Canon(m, e)
Whole(n) == Num(n, 0)

IsNum(v) == v.k = "num"
\* pandas isna / dropna: None and NaN are both missing
IsNA(v) == v.k \in {"none", "nan"}

\* a >= b, a > b on cells; any comparison with NaN is False (IEEE 754)
NumGE(a, b) == IsNum(a) /\ IsNum(b) /\ a.m * Pow10(b.e) >= b.m * Pow10(a.e)
NumGT(a, b) == IsNum(a) /\ IsNum(b) /\ a.m * Pow10(b.e) > b.m * Pow10(a.e)

\* ---------------------------------------------------------------- texts
DigitChars == {"0", "1", "2", "3", "4", "5", "6", "7", "8", "9"}
DigitVal ==
    ("0" :> 0) @@ ("1" :> 1) @@ ("2" :> 2) @@ ("3" :> 3) @@ ("4" :> 4) @@
    ("5" :> 5) @@ ("6" :> 6) @@ ("7" :> 7) @@ ("8" :> 8) @@ ("9" :> 9)
IsDigit(ch) == ch \in DigitChars

RECURSIVE DigitsVal(_)
DigitsVal(ds) ==
    IF ds = <<>> THEN 0
    ELSE 10 * DigitsVal(SubSeq(ds, 1, Len(ds) - 1)) + DigitVal[ds[Len(ds)]]

\* str.replace(old, new) for one-character old and new
Replace(s, old, new) == [i \in 1..Len(s) |-> IF s[i] = old THEN new ELSE s[i]]

CountOf(s, ch) == Cardinality({i \in 1..Len(s) : s[i] = ch})

\* float(text) succeeds on a text of digits and dots iff it holds at least one
\* digit and at most one dot ("12", "12.", ".5", "1.5"; not "", ".", "1.2.3")
FloatOk(cs) ==
    /\ \A i \in 1..Len(cs) : IsDigit(cs[i]) \/ cs[i] = "."
    /\ CountOf(cs, ".") <= 1
    /\ \E i \in 1..Len(cs) : IsDigit(cs[i])

\* the value float(text) gives for a text FloatOk accepts
ParseDec(cs) ==
    LET dots == {i \in 1..Len(cs) : cs[i] = "."}
        frac == IF dots = {} THEN 0 ELSE Len(cs) - (CHOOSE i \in dots : TRUE)
    IN Num(DigitsVal(SelectSeq(cs, IsDigit)), frac)

Neg(v) == Num(0 - v.m, v.e)

\* str.strip() for the blank character
RECURSIVE Strip(_)
Strip(s) ==
    IF s = <<>> THEN s
    ELSE IF s[1] = " " THEN Strip(Tail(s))
    ELSE IF s[Len(s)] = " " THEN Strip(SubSeq(s, 1, Len(s) - 1))
    ELSE s

\* float(text): optional blanks, optional sign, then a decimal
PyFloat(s) ==
    LET t == Strip(s)
        signed == t # <<>> /\ t[1] \in {"-", "+"}
        body == IF signed THEN Tail(t) ELSE t
    IN IF ~FloatOk(body) THEN NaN
       ELSE IF signed /\ t[1] = "-" THEN Neg(ParseDec(body))
       ELSE ParseDec(body)

\* pd.to_numeric(series, errors="coerce"), cell by cell: a number stays, a
\* text is parsed, whatever does not parse (and None) becomes NaN
to_numeric(v) ==
    IF v.k = "num" THEN v
    ELSE IF v.k = "str" THEN PyFloat(v.s)
    ELSE NaN

\* to_num: None stays None; otherwise str(x) with "," turned into ".", every
\* character that is neither a digit nor "." dropped, then float() or None
IsNumChar(ch) == IsDigit(ch) \/ ch = "."
to_num(x) ==
    IF x.k = "none" THEN None
    ELSE LET s == Replace(x.s, ",", ".")
             cleaned == SelectSeq(s, IsNumChar)
         IN IF cleaned = <<>> THEN None
            ELSE IF FloatOk(cleaned) THEN ParseDec(cleaned)
            ELSE None

\* ------------------------------------------------------- potential tier
TIER_AAA == 5000
TIER_AA == 2000
TIER_A == 500
TIER_B == 100

potencia_label_gt(dem_kw) ==
    IF NumGT(dem_kw, Whole(TIER_AAA)) THEN "AAA"
    ELSE IF NumGT(dem_kw, Whole(TIER_AA)) THEN "AA"
    ELSE IF NumGT(dem_kw, Whole(TIER_A)) THEN "A"
    ELSE IF NumGT(dem_kw, Whole(TIER_B)) THEN "B"
    ELSE "C"

potencia_label(dem_kw) ==
    IF NumGE(dem_kw, Whole(TIER_AAA)) THEN "AAA"
    ELSE IF NumGE(dem_kw, Whole(TIER_AA)) THEN "AA"
    ELSE IF NumGE(dem_kw, Whole(TIER_A)) THEN "A"
    ELSE IF NumGE(dem_kw, Whole(TIER_B)) THEN "B"
    ELSE "C"

\* add_derived.pot: float(d) first; a value float() refuses is "Indefinido"
pot(d) ==
    LET f == IF d.k = "str" THEN PyFloat(d.s) ELSE d
    IN IF d.k = "none" \/ (d.k = "str" /\ f.k = "nan") THEN "Indefinido"
       ELSE IF NumGE(f, Whole(TIER_AAA)) THEN "AAA"
       ELSE IF NumGE(f, Whole(TIER_AA)) THEN "AA"
       ELSE IF NumGE(f, Whole(TIER_A)) THEN "A"
       ELSE IF NumGE(f, Whole(TIER_B)) THEN "B"
       ELSE "C"

\* ---------------------------------------------------------------- region
UF_BY_IBGE_UF_CODE ==
    (11 :> "RO") @@ (12 :> "AC") @@ (13 :> "AM") @@ (14 :> "RR") @@
    (15 :> "PA") @@ (16 :> "AP") @@ (17 :> "TO") @@
    (21 :> "MA") @@ (22 :> "PI") @@ (23 :> "CE") @@ (24 :> "RN") @@
    (25 :> "PB") @@ (26 :> "PE") @@ (27 :> "AL") @@ (28 :> "SE") @@
    (29 :> "BA") @@
    (31 :> "MG") @@ (32 :> "ES") @@ (33 :> "RJ") @@ (35 :> "SP") @@
    (41 :> "PR") @@ (42 :> "SC") @@ (43 :> "RS") @@
    (50 :> "MS") @@ (51 :> "MT") @@ (52 :> "GO") @@ (53 :> "DF")

\* Series.astype("int64") of a float: truncation toward zero
TruncInt(v) ==
    IF v.m >= 0 THEN v.m \div Pow10(v.e) ELSE 0 - ((0 - v.m) \div Pow10(v.e))

MUN_DIVISOR == 100000

\* one cell of the UF column: to_numeric, fillna(0), astype(int64),
\* // 100000 (floor division), map through the table, fillna("??")
uf_of_div(cell, divisor) ==
    LET mun_num == to_numeric(cell)
        filled == IF IsNA(mun_num) THEN Whole(0) ELSE mun_num
        uf_code == TruncInt(filled) \div divisor
    IN IF uf_code \in DOMAIN UF_BY_IBGE_UF_CODE
       THEN UF_BY_IBGE_UF_CODE[uf_code] ELSE "??"

uf_of_wrong(cell) == uf_of_div(cell, 10000)

uf_of(cell) == uf_of_div(cell, MUN_DIVISOR)

\* ------------------------------------------------------------- columns
\* str.lower() of the column names the model uses
LowerName ==
    ("_id" :> "_id") @@ ("DEM_CONT" :> "dem_cont") @@ ("dem_cont" :> "dem_cont") @@
    ("Dem_Cont" :> "dem_cont") @@ ("demanda" :> "demanda") @@
    ("dem_kw" :> "dem_kw") @@ ("dem" :> "dem") @@ ("KW" :> "kw") @@
    ("POINT_Y" :> "point_y") @@ ("point_y" :> "point_y") @@ ("lat" :> "lat") @@
    ("LAT" :> "lat") @@ ("latitude" :> "latitude") @@ ("y" :> "y") @@
    ("POINT_X" :> "point_x") @@ ("point_x" :> "point_x") @@ ("lon" :> "lon") @@
    ("LON" :> "lon") @@ ("longitude" :> "longitude") @@ ("x" :> "x") @@
    ("MUN" :> "mun") @@ ("mun" :> "mun") @@ ("cod_mun" :> "cod_mun") @@
    ("ibge_mun" :> "ibge_mun") @@ ("municipio" :> "municipio") @@
    ("cd_mun" :> "cd_mun") @@ ("LGRD" :> "lgrd") @@ ("lgrd" :> "lgrd") @@
    ("NOME" :> "nome")

DEMAND_CANDS == <<"dem_cont", "DEM_CONT", "demanda", "dem_kw", "dem">>
LAT_CANDS == <<"point_y", "POINT_Y", "lat", "latitude", "y">>
LON_CANDS == <<"point_x", "POINT_X", "lon", "longitude", "x">>
MUN_CANDS == <<"mun", "MUN", "cod_mun", "ibge_mun", "municipio", "cd_mun">>

\* the Python None of a column name (pick's "no match", mun_col = None)
NoCol == "None"

SetMin(S) == CHOOSE x \in S : \A y \in S : x <= y
SetMax(S) == CHOOSE x \in S : \A y \in S : x >= y

pick_by_column_order(cols, candidates) ==
    LET m == {j \in 1..Len(cols) :
                  \E i \in 1..Len(candidates) :
                      LowerName[cols[j]] = LowerName[candidates[i]]}
    IN IF m = {} THEN NoCol ELSE cols[SetMin(m)]

\* pick: low = {c.lower(): c for c in cols} keeps, for one lower-case name, the
\* LAST column spelled so; the candidates are then tried in order
pick(cols, candidates) ==
    LET hits(i) == {j \in 1..Len(cols) : LowerName[cols[j]] = LowerName[candidates[i]]}
        found == {i \in 1..Len(candidates) : hits(i) # {}}
    IN IF found = {} THEN NoCol ELSE cols[SetMax(hits(SetMin(found)))]

\* auto_demand / auto_lat / auto_lon = pick(...) or cols[0]; auto_mun = pick(...)
pick_or_first(cols, candidates) ==
    IF pick(cols, candidates) = NoCol THEN cols[1] ELSE pick(cols, candidates)

auto_mapping(cols) ==
    [demand |-> pick_or_first(cols, DEMAND_CANDS),
     lat    |-> pick_or_first(cols, LAT_CANDS),
     lon    |-> pick_or_first(cols, LON_CANDS),
     mun    |-> pick(cols, MUN_CANDS)]

\* -------------------------------------------------------------- frames
\* A DataFrame is the sequence of its rows; a row is a function from column
\* name to cell.  The frame of no rows is <<>> (df.empty).
ColumnsOf(df) == IF df = <<>> THEN {} ELSE DOMAIN df[1]

\* the separator " -- " of addr_text; "--" stands for the em dash, one character
SEP == <<" ", "--", " ">>

RECURSIVE Join(_)
Join(parts) ==
    IF parts = <<>> THEN <<>>
    ELSE IF Len(parts) = 1 THEN parts[1]
    ELSE parts[1] \o SEP \o Join(Tail(parts))

\* the characters of each UF value, for the address line
UfChars ==
    ("RO" :> <<"R", "O">>) @@ ("AC" :> <<"A", "C">>) @@ ("AM" :> <<"A", "M">>) @@
    ("RR" :> <<"R", "R">>) @@ ("PA" :> <<"P", "A">>) @@ ("AP" :> <<"A", "P">>) @@
    ("TO" :> <<"T", "O">>) @@ ("MA" :> <<"M", "A">>) @@ ("PI" :> <<"P", "I">>) @@
    ("CE" :> <<"C", "E">>) @@ ("RN" :> <<"R", "N">>) @@ ("PB" :> <<"P", "B">>) @@
    ("PE" :> <<"P", "E">>) @@ ("AL" :> <<"A", "L">>) @@ ("SE" :> <<"S", "E">>) @@
    ("BA" :> <<"B", "A">>) @@ ("MG" :> <<"M", "G">>) @@ ("ES" :> <<"E", "S">>) @@
    ("RJ" :> <<"R", "J">>) @@ ("SP" :> <<"S", "P">>) @@ ("PR" :> <<"P", "R">>) @@
    ("SC" :> <<"S", "C">>) @@ ("RS" :> <<"R", "S">>) @@ ("MS" :> <<"M", "S">>) @@
    ("MT" :> <<"M", "T">>) @@ ("GO" :> <<"G", "O">>) @@ ("DF" :> <<"D", "F">>) @@
    ("??" :> <<"?", "?">>)

\* enrich_base.addr_text with LGRD the only address column of the model's
\* sources: [LGRD stripped, if not null] + [UF], the empty parts left out
addr_text(r, uf) ==
    LET lg == IF "LGRD" \in DOMAIN r /\ ~IsNA(r["LGRD"]) THEN <<Strip(r["LGRD"].s)>> ELSE <<>>
        parts == lg \o <<UfChars[uf]>>
        nonempty(p) == p # <<>>
    IN Join(SelectSeq(parts, nonempty))

\* one row that survived dropna, with the columns enrich_base adds to it (the
\* link and CNAE columns, which nothing reads back, are left out)
derive_row(r, dem, lat, lon, mun_col) ==
    LET mapped == mun_col # NoCol /\ mun_col \in DOMAIN r
        uf == IF mapped THEN uf_of(r[mun_col]) ELSE "??"
    IN r @@ [Demanda_kW |-> dem, Latitude |-> lat, Longitude |-> lon,
             UF |-> uf,
             IBGE_MUN |-> IF mapped THEN to_numeric(r[mun_col]) ELSE None,
             Potencial |-> potencia_label(dem),
             Endereco |-> Txt(addr_text(r, uf))]

cell_dem(r, demand_col) == IF demand_col \in DOMAIN r THEN to_num(r[demand_col]) ELSE None
cell_geo(r, col) == IF col \in DOMAIN r THEN to_numeric(r[col]) ELSE None

\* dropna(subset=["Demanda_kW", "Latitude", "Longitude"]): the row stays iff
\* none of the three is missing
dropna_keeps(dem, lat, lon) == ~IsNA(dem) /\ ~IsNA(lat) /\ ~IsNA(lon)

\* enrich_base.  An empty input returns an empty frame at once.  Otherwise
\* the rows dropna keeps are derived.  When dropna keeps NO row of a non-empty
\* input, df.apply(addr_text, axis=1) runs on a frame of zero rows: pandas
\* then probes addr_text with an all-NaN row, the join of [nan] raises, the
\* probe is swallowed and apply returns a copy of the FRAME; assigning that
\* frame to the single column "Endereco" raises ValueError, which
\* enrich_base does not catch.  (Releases of pandas that probe with an
\* empty row get "" from addr_text and return an empty Series: see
\* enrich_base_outcomes.)
enrich_base(df, demand_col, lat_col, lon_col, mun_col) ==
    LET keeps(r) == dropna_keeps(cell_dem(r, demand_col), cell_geo(r, lat_col),
                                 cell_geo(r, lon_col))
        kept == SelectSeq(df, keeps)
        row(r) == derive_row(r, cell_dem(r, demand_col), cell_geo(r, lat_col),
                             cell_geo(r, lon_col), mun_col)
    IN IF df = <<>> THEN [raised |-> FALSE, rows |-> <<>>]
       ELSE IF kept = <<>> THEN [raised |-> TRUE, rows |-> <<>>]
       ELSE [raised |-> FALSE, rows |-> [i \in 1..Len(kept) |-> row(kept[i])]]

\* line 175 on a frame of zero rows, by the release of pandas installed: the
\* assignment raises, or the empty frame goes on to line 199
enrich_base_outcomes(df, demand_col, lat_col, lon_col, mun_col) ==
    LET e == enrich_base(df, demand_col, lat_col, lon_col, mun_col)
    IN {e, [raised |-> FALSE, rows |-> e.rows]}

\* df.sort_values(key, ascending=False): each row goes behind the rows whose
\* key is greater than its own (rows of equal key keep their order)
RECURSIVE InsertDesc(_, _, _)
InsertDesc(r, sorted, key) ==
    IF sorted = <<>> THEN <<r>>
    ELSE IF NumGT(sorted[1][key], r[key])
         THEN <<sorted[1]>> \o InsertDesc(r, Tail(sorted), key)
    ELSE <<r>> \o sorted

RECURSIVE sort_values_desc(_, _)
sort_values_desc(df, key) ==
    IF df = <<>> THEN <<>>
    ELSE InsertDesc(df[1], sort_values_desc(Tail(df), key), key)

\* df.head(n), n >= 0
head(df, n) == SubSeq(df, 1, IF n < Len(df) THEN n ELSE Len(df))

\* --------------------------------------------------------------- score
UpperChar ==
    ("a" :> "A") @@ ("b" :> "B") @@ ("c" :> "C") @@ ("d" :> "D") @@ ("e" :> "E") @@ ("f" :> "F") @@
    ("g" :> "G") @@ ("h" :> "H") @@ ("i" :> "I") @@ ("j" :> "J") @@ ("k" :> "K") @@ ("l" :> "L") @@
    ("m" :> "M") @@ ("n" :> "N") @@ ("o" :> "O") @@ ("p" :> "P") @@ ("q" :> "Q") @@ ("r" :> "R") @@
    ("s" :> "S") @@ ("t" :> "T") @@ ("u" :> "U") @@ ("v" :> "V") @@ ("w" :> "W") @@ ("x" :> "X") @@
    ("y" :> "Y") @@ ("z" :> "Z")

\* str.upper(), character by character
Upper(s) == [i \in 1..Len(s) |-> IF s[i] \in DOMAIN UpperChar THEN UpperChar[s[i]] ELSE s[i]]

\* sub in s
Contains(s, sub) ==
    \E i \in 1..(Len(s) - Len(sub) + 1) : SubSeq(s, i, i + Len(sub) - 1) = sub

STREET_TOKENS ==
    {<<"R", "U", "A">>, <<"A", "V">>, <<"A", "L">>, <<"B", "R", " ">>,
     <<"R", "O", "D">>, <<"K", "M">>}

\* calc_score.urban_score; the result is min(cap, pts)
urban_score_cap(addr, cap) ==
    IF IsNA(addr) THEN 0
    ELSE LET s == Strip(Upper(addr.s))
             cep == IF Contains(s, <<"C", "E", "P">>) THEN 4 ELSE 0
             sep == IF Contains(s, <<"--">>) \/ Contains(s, <<",">>) THEN 3 ELSE 0
             street == IF \/ \E t \in STREET_TOKENS : Contains(s, t)
                          \/ \E i \in 1..Len(s) : IsDigit(s[i])
                       THEN 3 ELSE 0
             pts == cep + sep + street
         IN IF s = <<>> THEN 0 ELSE IF cap < pts THEN cap ELSE pts

urban_score(addr) == urban_score_cap(addr, 10)

\* np.log10 to two decimals: Log10Centi(v) = floor(100 * log10(v)) for a
\* number v >= 1, from the number of digits of v and, for its first four
\* significant digits, the table of ceil(1000 * 10^(j/100)), j = 0..99
POW10_HUNDREDTHS ==
    <<
      1000, 1024, 1048, 1072, 1097, 1123, 1149, 1175, 1203, 1231,
      1259, 1289, 1319, 1349, 1381, 1413, 1446, 1480, 1514, 1549,
      1585, 1622, 1660, 1699, 1738, 1779, 1820, 1863, 1906, 1950,
      1996, 2042, 2090, 2138, 2188, 2239, 2291, 2345, 2399, 2455,
      2512, 2571, 2631, 2692, 2755, 2819, 2885, 2952, 3020, 3091,
      3163, 3236, 3312, 3389, 3468, 3549, 3631, 3716, 3802, 3891,
      3982, 4074, 4169, 4266, 4366, 4467, 4571, 4678, 4787, 4898,
      5012, 5129, 5249, 5371, 5496, 5624, 5755, 5889, 6026, 6166,
      6310, 6457, 6607, 6761, 6919, 7080, 7245, 7414, 7586, 7763,
      7944, 8129, 8318, 8512, 8710, 8913, 9121, 9333, 9550, 9773
    >>

RECURSIVE NDigits(_)
NDigits(n) == IF n < 10 THEN 1 ELSE 1 + NDigits(n \div 10)

Log10Centi(v) ==
    LET nd == NDigits(v.m)
        m4 == IF nd >= 4 THEN v.m \div Pow10(nd - 4) ELSE v.m * Pow10(4 - nd)
        j == SetMax({x \in 1..100 : POW10_HUNDREDTHS[x] <= m4}) - 1
    IN 100 * (nd - 1 - v.e) + j

DEM_LOW == 100
DEM_HIGH == 500000
dem_min == Log10Centi(Whole(DEM_LOW + 1))
dem_max == Log10Centi(Whole(DEM_HIGH + 1))

NoClip(x, lo, hi) == x
Clip(x, lo, hi) == IF x < lo THEN lo ELSE IF x > hi THEN hi ELSE x

\* Score_Demanda in thousandths of a point: to_numeric, fillna(0),
\* clip(lower=0), dem_norm = (log10(d + 1) - dem_min) / (dem_max - dem_min),
\* np.clip(dem_norm, 0, 1), times 70
score_demanda(cell) ==
    LET n == to_numeric(cell)
        d == IF IsNA(n) \/ n.m < 0 THEN Whole(0) ELSE n
        dem_score == Log10Centi(Num(d.m + Pow10(d.e), d.e))
        span == dem_max - dem_min
        norm_k == Clip(1000 * (dem_score - dem_min), 0, 1000 * span)
    IN (70 * norm_k) \div span

\* pot_map and .map(pot_map).fillna(0)
score_potencial(tier) ==
    IF tier = "AAA" THEN 20 ELSE IF tier = "AA" THEN 16 ELSE IF tier = "A" THEN 12
    ELSE IF tier = "B" THEN 6 ELSE IF tier = "C" THEN 2 ELSE 0

\* round(1) of a value given in thousandths, as a number of tenths
RoundTenths(milli) == (milli + 50) \div 100

\* calc_score on one row: the three components and their rounded sum
calc_score_row(r) ==
    LET sd == score_demanda(r.Demanda_kW)
        sp == score_potencial(r.Potencial)
        sa == urban_score(r.Endereco)
    IN [Score_Demanda |-> Num(RoundTenths(sd), 1),
        Score_Potencial |-> Whole(sp),
        Score_Acionavel |-> Whole(sa),
        Score_Alexandria |-> Num(RoundTenths(sd + 1000 * sp + 1000 * sa), 1)]

calc_score(df) == [i \in 1..Len(df) |-> df[i] @@ calc_score_row(df[i])]

\* -------------------------------------------------------- the SQL variant
\* normalize_df's rename table: lower-case source column -> canonical name
REN ==
    ("dem_cont" :> "Demanda_kW") @@ ("point_y" :> "Latitude") @@
    ("point_x" :> "Longitude") @@ ("mun" :> "MUN") @@ ("lgrd" :> "LGRD")

\* the rename loop on one row: k becomes REN[k] when REN[k] is not a column yet
rename_row(r) ==
    LET renamed == {c \in DOMAIN r : c \in DOMAIN REN /\ REN[c] \notin DOMAIN r}
        newcols == (DOMAIN r \ renamed) \cup {REN[c] : c \in renamed}
        orig(c) == IF c \in DOMAIN r /\ c \notin renamed THEN c
                   ELSE CHOOSE o \in renamed : REN[o] = c
    IN [c \in newcols |-> r[orig(c)]]

NUMERIC_COLS == {"Demanda_kW", "Latitude", "Longitude"}

coerce_row(r) == [c \in DOMAIN r |-> IF c \in NUMERIC_COLS THEN to_numeric(r[c]) ELSE r[c]]

\* normalize_df: rename, coerce the three numeric columns, dropna on
\* Latitude and Longitude.  dropna raises KeyError when a subset column is not
\* a column of the frame; the frame of no records has no columns at all.
normalize_df(df) ==
    LET rows == [i \in 1..Len(df) |-> coerce_row(rename_row(df[i]))]
        keeps(r) == ~IsNA(r["Latitude"]) /\ ~IsNA(r["Longitude"])
    IN IF ~({"Latitude", "Longitude"} \subseteq ColumnsOf(rows))
       THEN [raised |-> TRUE, rows |-> <<>>]
       ELSE [raised |-> FALSE, rows |-> SelectSeq(rows, keeps)]

\* add_derived: Potencial = pot(Demanda_kW) (None when the column is absent).
\* Setor, Name and Description are display columns and are left out.
add_derived(df) ==
    [i \in 1..Len(df) |->
        df[i] @@ ("Potencial" :>
            pot(IF "Demanda_kW" \in DOMAIN df[i] THEN df[i]["Demanda_kW"] ELSE None))]

\* ---------------------------------------------------------- the source
DigitChar == <<"0", "1", "2", "3", "4", "5", "6", "7", "8", "9">>

RECURSIVE Digits(_)
Digits(n) == IF n < 10 THEN <<DigitChar[n + 1]>>
             ELSE Digits(n \div 10) \o <<DigitChar[(n % 10) + 1]>>

MaxRecords == 11
SmallRecords == 5
MaxTopN == 2
MaxChunks == 2

SchemaCols ==
    ("A" :> <<"_id", "DEM_CONT", "POINT_Y", "POINT_X", "MUN", "LGRD">>) @@
    ("B" :> <<"_id", "KW", "POINT_Y", "POINT_X">>)

LAT_TXT == Txt(<<"-", "2", "5", ".", "4">>)
LON_TXT == Txt(<<"-", "4", "9", ".", "2">>)
MUN_TXTS ==
    <<Txt(<<"4", "1", "0", "6", "9", "0", "2">>), Txt(<<"3", "5", "5", "0", "3", "0", "8">>),
      None, Txt(<<"0">>)>>
LGRD_TXTS == <<None, Txt(<<"r", "u", "a", " ", "x", ",", " ", "1">>), Txt(<<" ">>)>>

\* the k-th record (k = 1..n) of a source: its demand is 500 * k (the source
\* is not sorted by demand descending), every third one written with a decimal
\* comma; with badMod > 0 every badMod-th record is unusable (no latitude
\* when k is even, a demand text without digits when k is odd)
SourceRow(schema, k, badMod) ==
    LET bad == badMod > 0 /\ k % badMod = 0
        kw == 500 * k
        dem == IF bad /\ k % 2 = 1 THEN Txt(<<"n", "/", "d">>)
               ELSE Txt(Digits(kw) \o (IF k % 3 = 0 THEN <<",", "5">> ELSE <<>>))
        lat == IF bad /\ k % 2 = 0 THEN None ELSE LAT_TXT
    IN IF schema = "A"
       THEN ("_id" :> Txt(Digits(k))) @@ ("DEM_CONT" :> dem) @@ ("POINT_Y" :> lat) @@
            ("POINT_X" :> LON_TXT) @@ ("MUN" :> MUN_TXTS[(k % 4) + 1]) @@
            ("LGRD" :> LGRD_TXTS[(k % 3) + 1])
       ELSE ("_id" :> Txt(Digits(k))) @@ ("KW" :> dem) @@ ("POINT_Y" :> lat) @@
            ("POINT_X" :> LON_TXT)

Source(schema, n, badMod) ==
    [schema |-> schema,
     rows |-> [k \in 1..n |-> SourceRow(schema, k, badMod)]]

\* the sources of the model: none to SmallRecords records, or MaxRecords
SourceSizes == (0..SmallRecords) \cup {MaxRecords}
Sources ==
    {Source("A", n, badMod) : n \in SourceSizes, badMod \in {0, 1, 3}}
    \cup {Source("B", n, 0) : n \in SourceSizes \ {0}}

\* datastore_search: the records offset+1 .. offset+limit of the resource
Page(src, limit, offset) ==
    SubSeq(src.rows, offset + 1,
           IF offset + limit < Len(src.rows) THEN offset + limit ELSE Len(src.rows))

\* --------------------------------------------------------------- state
VARIABLES
    variant,    \* which program runs: "paged" (app.py) or "sql" (app old.py)
    source,     \* the remote resource: its schema and its records
    pc,         \* where the script run is
    exc,        \* the exception that ended the run, "none" if none
    ui,         \* the kinds of st.error / st.warning / st.info messages shown
    cols,       \* probe_columns' result
    mapping,    \* demand_col, lat_col, lon_col, mun_col; auto_* before the click
    params,     \* min_kw, top_n, chunk, max_chunks of the click
    cs,         \* the running ckan_search call
    ft,         \* fetch_top's locals: parts (concatenated), offset
    fetched,    \* history: the offsets of the page fetches fetch_top issued
    pages,      \* history: per returned page, raw rows and rows retained so far
    top,        \* fetch_top's return value
    shown,      \* the table the run displays, with the filters and the sort it was made with
    fn, arg, out    \* the function applied last, its argument and its result

vars == <<variant, source, pc, exc, ui, cols, mapping, params, cs, ft, fetched,
          pages, top, shown, fn, arg, out>>

ATTEMPTS_5 == 4 + 1
ATTEMPTS == 4
RETRY_STATUS == {429, 500, 502, 503, 504}
OVERFETCH == 10

\* the HTTP statuses the remote end answers with in the model
Statuses == {200, 503, 404}

NoLast == [k |-> "none"]
NoMapping == [demand |-> NoCol, lat |-> NoCol, lon |-> NoCol, mun |-> NoCol]
NoParams == [min_kw |-> Whole(0), top_n |-> 0, chunk |-> 0, max_chunks |-> 0]
CsIdle ==
    [pc |-> "idle", limit |-> 0, offset |-> 0, i |-> 0, last |-> NoLast,
     calls |-> 0, sleeps |-> <<>>, ok |-> FALSE, ret |-> <<>>, diag |-> NoLast]
\* ckan_search(resource_id, limit, offset) entered: last = None, i = 0
CsCall(limit, offset) == [CsIdle EXCEPT !.pc = "req", !.limit = limit, !.offset = offset]
FtIdle == [parts |-> <<>>, offset |-> 0]

\* nothing displayed yet; no commercial filter active
NoFilters == [uf |-> NoCol, pot |-> {}, mun |-> FALSE]
NoShown == [rows |-> <<>>, filters |-> NoFilters, sort_by |-> NoCol]

InitCommon ==
    /\ pc = "start" /\ exc = "none" /\ ui = {} /\ cols = <<>>
    /\ mapping = NoMapping /\ params = NoParams /\ cs = CsIdle /\ ft = FtIdle
    /\ fetched = <<>> /\ pages = <<>> /\ top = <<>> /\ shown = NoShown
    /\ fn = "none" /\ arg = None /\ out = None

Init ==
    /\ variant \in {"paged", "sql"}
    /\ source \in Sources
    /\ variant = "sql" => source = Source("A", 0, 0)
    /\ InitCommon

\* ------------------------------------------------------------ ckan_search
\* one iteration of "for i in range(4)" that does not return: last is set,
\* time.sleep(2 * (i + 1)) is slept, and the loop goes on or runs out
AttemptFailed(last) ==
    cs' = [cs EXCEPT !.last = last, !.calls = @ + 1,
                     !.sleeps = Append(@, 2 * (cs.i + 1)),
                     !.i = @ + 1,
                     !.pc = IF cs.i + 1 < ATTEMPTS THEN "req" ELSE "exhausted"]

Rest == <<variant, source, pc, exc, cols, mapping, params, ft, fetched, pages,
          top, shown, fn, arg, out>>

\* lines 38-41: status 429 or 5xx
HttpRetryable == \E st \in Statuses \cap RETRY_STATUS :
    /\ cs.pc = "req"
    /\ AttemptFailed([k |-> "status", code |-> st])
    /\ UNCHANGED <<Rest, ui>>

\* lines 42-45: any other status that is not 200
HttpOtherStatus == \E st \in Statuses \ (RETRY_STATUS \cup {200}) :
    /\ cs.pc = "req"
    /\ AttemptFailed([k |-> "status", code |-> st])
    /\ UNCHANGED <<Rest, ui>>

\* lines 46-50: status 200, body {"success": false}
HttpNotSuccess ==
    /\ cs.pc = "req"
    /\ AttemptFailed([k |-> "success=false"])
    /\ UNCHANGED <<Rest, ui>>

\* lines 52-54: requests.get or r.json() or data["result"]["records"] raised
HttpException ==
    /\ cs.pc = "req"
    /\ AttemptFailed([k |-> "EXC"])
    /\ UNCHANGED <<Rest, ui>>

\* line 51: status 200, success: the records of the answer are returned
HttpOk ==
    /\ cs.pc = "req"
    /\ cs' = [cs EXCEPT !.calls = @ + 1, !.pc = "ret", !.ok = TRUE,
                        !.ret = Page(source, cs.limit, cs.offset)]
    /\ UNCHANGED <<Rest, ui>>

GiveUpRaises ==
    /\ cs.pc = "exhausted"
    /\ cs' = CsIdle
    /\ pc' = "crashed"
    /\ exc' = "ConnectionError"
    /\ UNCHANGED <<variant, source, ui, cols, mapping, params, ft, fetched, pages,
                   top, shown, fn, arg, out>>

\* lines 55-56: the loop ran out: st.error with the last detail, empty frame
GiveUp ==
    /\ cs.pc = "exhausted"
    /\ cs' = [cs EXCEPT !.pc = "ret", !.ok = FALSE, !.ret = <<>>, !.diag = cs.last]
    /\ ui' = ui \cup {"ckan_fail"}
    /\ UNCHANGED Rest

\* --------------------------------------------------- app.py, the script
\* line 316 -> probe_columns -> ckan_search(resource_id, limit=1, offset=0)
Start ==
    /\ variant = "paged" /\ pc = "start"
    /\ pc' = "probing"
    /\ cs' = CsCall(1, 0)
    /\ UNCHANGED <<variant, source, exc, ui, cols, mapping, params, ft, fetched,
                   pages, top, shown, fn, arg, out>>

\* line 61: list(df.columns) if the frame is not empty, else []
probe_result(df) == IF df # <<>> THEN SchemaCols[source.schema] ELSE <<>>

\* line 317: "if not cols"
no_cols_never(c) == FALSE
no_cols(c) == c = <<>>

\* lines 316-329: the probe returned.  No columns: st.error and st.stop().
\* Otherwise the four auto_* columns are resolved (cols[0] of an empty list
\* would be an IndexError) and the sidebar is drawn.
ProbeReturn ==
    /\ pc = "probing" /\ cs.pc = "ret"
    /\ cols' = probe_result(cs.ret)
    /\ cs' = CsIdle
    /\ IF no_cols(cols')
       THEN /\ ui' = ui \cup {"no_columns"}
            /\ pc' = "stopped"
            /\ UNCHANGED <<exc, mapping>>
       ELSE IF cols' = <<>>
       THEN /\ pc' = "crashed" /\ exc' = "IndexError"
            /\ UNCHANGED <<ui, mapping>>
       ELSE /\ mapping' = auto_mapping(cols')
            /\ pc' = "sidebar"
            /\ UNCHANGED <<exc, ui>>
    /\ UNCHANGED <<variant, source, params, ft, fetched, pages, top, shown,
                   fn, arg, out>>

\* lines 474-476: btn_run is False: st.info, the run ends
NoClick ==
    /\ pc = "sidebar"
    /\ pc' = "idle"
    /\ ui' = ui \cup {"info"}
    /\ UNCHANGED <<variant, source, exc, cols, mapping, params, cs, ft, fetched,
                   pages, top, shown, fn, arg, out>>

\* the selections a user makes in the four column select boxes: the automatic
\* ones, or "(nenhuma)" for the municipality, or another demand column
MappingChoices(c, auto) ==
    {auto, [auto EXCEPT !.mun = NoCol]}
    \cup {[auto EXCEPT !.demand = c[Len(c)]]}

PageSizes == {2, 10}
MinKws == {Whole(0), Whole(2500)}

\* lines 332-337 and 373-381: the widgets' values at the click, and fetch_top
\* entered: parts = [], offset = 0, and the first ckan_search of the loop
ClickRun ==
    /\ pc = "sidebar"
    /\ \E m \in MappingChoices(cols, mapping), kw \in MinKws,
          n \in 0..MaxTopN, ch \in PageSizes, mc \in 1..MaxChunks :
          /\ mapping' = m
          /\ params' = [min_kw |-> kw, top_n |-> n, chunk |-> ch, max_chunks |-> mc]
          /\ cs' = CsCall(ch, 0)
    /\ ft' = FtIdle
    /\ fetched' = <<0>>
    /\ pc' = "fetching"
    /\ UNCHANGED <<variant, source, exc, ui, cols, pages, top, shown, fn, arg, out>>

\* ------------------------------------------------------------- fetch_top
\* line 210: df1[df1["Demanda_kW"] >= float(min_kw)]
min_kw_filter(df, min_kw) ==
    LET keeps(r) == NumGE(r.Demanda_kW, min_kw) IN SelectSeq(df, keeps)

fetch_top_result_unsorted(parts, top_n) == head(parts, top_n)

\* lines 218-223: the frame fetch_top returns for the accumulated parts
fetch_top_result(parts, top_n) ==
    IF parts = <<>> THEN <<>>
    ELSE head(sort_values_desc(parts, "Demanda_kW"), top_n)

\* line 215: the over-fetch stop
pool_full(parts, top_n) == Len(parts) >= top_n * OVERFETCH

Df1 == enrich_base(cs.ret, mapping.demand, mapping.lat, mapping.lon, mapping.mun)
Parts1 == ft.parts \o min_kw_filter(Df1.rows, params.min_kw)

FtRest == <<variant, source, exc, ui, cols, mapping, params, shown, fn, arg, out>>

\* lines 207-208: the page is empty (no record, or the client gave up): break
PageEmpty ==
    /\ pc = "fetching" /\ cs.pc = "ret"
    /\ cs.ret = <<>>
    /\ pages' = Append(pages, [raw |-> 0, retained |-> Len(ft.parts)])
    /\ top' = fetch_top_result(ft.parts, params.top_n)
    /\ pc' = "fetched"
    /\ cs' = CsIdle
    /\ UNCHANGED <<FtRest, ft, fetched>>

\* line 209: enrich_base raises on a page none of whose rows survives dropna
\* (where pandas returns a frame from the apply of line 175); fetch_top and
\* the script do not catch it
PageRaises ==
    /\ pc = "fetching" /\ cs.pc = "ret"
    /\ cs.ret # <<>> /\ Df1.raised
    /\ pc' = "crashed"
    /\ exc' = "ValueError"
    /\ cs' = CsIdle
    /\ UNCHANGED <<variant, source, ui, cols, mapping, params, shown, fn, arg, out,
                   ft, fetched, pages, top>>

\* lines 209-216 and back to 205-206: the page is added, and the loop goes on
\* with the next ckan_search
PageNext ==
    /\ pc = "fetching" /\ cs.pc = "ret"
    /\ cs.ret # <<>>
    /\ ~pool_full(Parts1, params.top_n)
    /\ Len(fetched) < params.max_chunks
    /\ ft' = [parts |-> Parts1, offset |-> ft.offset + params.chunk]
    /\ pages' = Append(pages, [raw |-> Len(cs.ret), retained |-> Len(Parts1)])
    /\ cs' = CsCall(params.chunk, ft.offset + params.chunk)
    /\ fetched' = Append(fetched, ft.offset + params.chunk)
    /\ UNCHANGED <<FtRest, pc, top>>

\* lines 209-223: the page is added and the loop ends, by the over-fetch stop
\* (line 215) or because range(max_chunks) ran out
PageLast ==
    /\ pc = "fetching" /\ cs.pc = "ret"
    /\ cs.ret # <<>>
    /\ pool_full(Parts1, params.top_n) \/ Len(fetched) >= params.max_chunks
    /\ ft' = [parts |-> Parts1, offset |-> ft.offset + params.chunk]
    /\ pages' = Append(pages, [raw |-> Len(cs.ret), retained |-> Len(Parts1)])
    /\ top' = fetch_top_result(Parts1, params.top_n)
    /\ pc' = "fetched"
    /\ cs' = CsIdle
    /\ UNCHANGED <<FtRest, fetched>>

\* -------------------------------------------------- app.py, after fetch_top
POT_DEFAULT == {"AAA", "AA", "A"}
CURITIBA == 4106902

\* the commercial filters of the sidebar: none active; the defaults (UF "PR",
\* tiers AAA/AA/A); the defaults with "Curitiba (4106902)"
FilterChoices ==
    {NoFilters,
     [uf |-> "PR", pot |-> POT_DEFAULT, mun |-> FALSE],
     [uf |-> "PR", pot |-> POT_DEFAULT, mun |-> TRUE]}
SortChoices == {"Score Alexandria", "Demanda (kW)"}

\* lines 388-398
apply_filters(df, f, mun_col) ==
    LET keeps(r) ==
            /\ f.uf # NoCol => r.UF = f.uf
            /\ f.pot # {} => r.Potencial \in f.pot
            /\ (f.mun /\ mun_col # NoCol) => r.IBGE_MUN = Whole(CURITIBA)
    IN SelectSeq(df, keeps)

\* lines 383-415: nothing returned: st.warning and st.stop(); otherwise the
\* filters, calc_score and the sort chosen in "Ordenar por"
ScriptTail == \E f \in FilterChoices, sort_by \in SortChoices :
    /\ pc = "fetched"
    /\ IF top = <<>>
       THEN /\ ui' = ui \cup {"nothing_returned"}
            /\ pc' = "stopped_empty"
            /\ UNCHANGED shown
       ELSE /\ shown' = [rows |-> sort_values_desc(
                                      calc_score(apply_filters(top, f, mapping.mun)),
                                      IF sort_by = "Score Alexandria"
                                      THEN "Score_Alexandria" ELSE "Demanda_kW"),
                         filters |-> f, sort_by |-> sort_by]
            /\ pc' = "done"
            /\ UNCHANGED ui
    /\ UNCHANGED <<variant, source, exc, cols, mapping, params, cs, ft, fetched,
                   pages, top, fn, arg, out>>

\* ------------------------------------------------ app old.py, the script
\* the columns the SELECT of fetch_dataset asks for, as far as modelled
SqlRow(dem, lat, lon) ==
    ("dem_cont" :> dem) @@ ("point_y" :> lat) @@ ("point_x" :> lon) @@
    ("mun" :> MUN_TXTS[1])

SqlRows ==
    {SqlRow(Txt(<<"2", "5", "0", "0">>), LAT_TXT, LON_TXT),
     SqlRow(Txt(<<"n", "/", "d">>), LAT_TXT, LON_TXT),
     SqlRow(Txt(<<"7", "0", "0", "0">>), None, LON_TXT)}

MaxSqlRows == 2

\* the record lists the SQL endpoint may answer with
SqlBatches == UNION {[1..n -> SqlRows] : n \in 0..MaxSqlRows}

SqlRest == <<variant, source, cols, mapping, params, cs, ft, fetched, pages, top,
             fn, arg, out>>

\* ckan_sql line 20: r.raise_for_status() raises HTTPError on 4xx and 5xx;
\* nothing between ckan_sql and the top of the script catches it
SqlHttpError == \E st \in Statuses \ {200} :
    /\ variant = "sql" /\ pc = "start"
    /\ pc' = "crashed"
    /\ exc' = "HTTPError"
    /\ UNCHANGED <<SqlRest, ui, shown>>

\* ckan_sql line 21: r.json() raises on a body that is not JSON
SqlBadJson ==
    /\ variant = "sql" /\ pc = "start"
    /\ pc' = "crashed"
    /\ exc' = "JSONDecodeError"
    /\ UNCHANGED <<SqlRest, ui, shown>>

\* ckan_sql lines 22-23: success is false: raise RuntimeError
SqlNotSuccess ==
    /\ variant = "sql" /\ pc = "start"
    /\ pc' = "crashed"
    /\ exc' = "RuntimeError"
    /\ UNCHANGED <<SqlRest, ui, shown>>

\* ckan_sql line 24, then fetch_dataset lines 105-107 and the script's
\* session cache: normalize_df (KeyError on a frame without the coordinate
\* columns), add_derived
SqlOk == \E batch \in SqlBatches :
    /\ variant = "sql" /\ pc = "start"
    /\ IF normalize_df(batch).raised
       THEN /\ pc' = "crashed" /\ exc' = "KeyError"
            /\ UNCHANGED shown
       ELSE /\ pc' = "done"
            /\ shown' = [NoShown EXCEPT !.rows = add_derived(normalize_df(batch).rows)]
            /\ UNCHANGED exc
    /\ UNCHANGED <<SqlRest, ui>>

Next ==
    \/ Start \/ HttpRetryable \/ HttpOtherStatus \/ HttpNotSuccess
    \/ HttpException \/ HttpOk \/ GiveUp \/ ProbeReturn \/ NoClick \/ ClickRun
    \/ PageEmpty \/ PageRaises \/ PageNext \/ PageLast \/ ScriptTail
    \/ SqlHttpError \/ SqlBadJson \/ SqlNotSuccess \/ SqlOk

Spec == Init /\ [][Next]_vars

\* ------------------------------------------- the functions on their own
\* Demands around every threshold of the tier ladder and of the score, and a
\* grid of whole demands from 0 to GridN * GRID_STEP
GridN == 24
GRID_STEP == 250
DemandSamples ==
    {Num(10 * t + d, 1) : t \in {100, 500, 2000, 5000, 500000}, d \in {-10, -1, 0, 1}}
    \cup {Whole(GRID_STEP * k) : k \in 0..GridN}
    \cup {Whole(2000000)}

DemCells ==
    {None, Txt(<<"2", "5", "0", "0">>), Txt(<<"1", "5", "0", "0", ",", "5">>),
     Txt(<<"n", "/", "d">>), Txt(<<"1", ".", "2", ".", "3">>),
     Txt(<<"-", "9", "0", " ", "k", "W">>)}
LatCells == {None, LAT_TXT, Txt(<<"2", "5", ",", "4">>)}
LonCells == {LON_TXT, Txt(<<"W">>)}
MunCells ==
    {None, Txt(<<"0">>), Txt(<<"4", "1", "0", "6", "9", "0", "2">>),
     Txt(<<"3", "5", "5", "0", "3", "0", "8">>), Txt(<<"4", "1", "0", "6", "9", "0", "2", ".", "7">>),
     Txt(<<"9", "9", "0", "6", "9", "0", "2">>), Txt(<<"4", "1", " ", "P", "R">>),
     Txt(<<"-", "4", "1", "0", "6", "9", "0", "2">>), Txt(<<"4", "1">>),
     Txt(<<"5", "3", "9", "9", "9", "9", "9">>), Txt(<<"5", "4", "0", "0", "0", "0", "0">>)}

FnCols == <<"DEM_CONT", "POINT_Y", "POINT_X", "MUN", "LGRD">>
FnRow(dem, lat, lon, mun, lgrd) ==
    ("DEM_CONT" :> dem) @@ ("POINT_Y" :> lat) @@ ("POINT_X" :> lon) @@
    ("MUN" :> mun) @@ ("LGRD" :> lgrd)

\* every single row, and the rows batches of several rows are made of
FnRows1 == {FnRow(d, la, lo, mu, LGRD_TXTS[2]) :
                d \in DemCells, la \in LatCells, lo \in LonCells, mu \in MunCells}
FnRowsN == {FnRow(d, la, LON_TXT, MUN_TXTS[1], LGRD_TXTS[1]) :
                d \in DemCells, la \in {None, LAT_TXT}}
MaxBatch == 2
FnBatches == {<<r>> : r \in FnRows1} \cup UNION {[1..n -> FnRowsN] : n \in 0..MaxBatch}

FnSqlRows1 == {SqlRow(d, la, lo) : d \in DemCells, la \in LatCells, lo \in LonCells}
FnSqlRowsN == {SqlRow(d, la, LON_TXT) : d \in DemCells, la \in {None, LAT_TXT}}
FnSqlBatches ==
    {<<r>> : r \in FnSqlRows1} \cup UNION {[1..n -> FnSqlRowsN] : n \in 0..MaxBatch}

AddressSamples ==
    {None, NaN, Txt(<<>>), Txt(<<" ", " ">>), Txt(<<"?", "?">>), Txt(<<"P", "R">>),
     Txt(<<"A", "L">>), Txt(<<"r", "u", "a", " ", "x", " ", "--", " ", "P", "R">>),
     Txt(<<"C", "E", "P", " ", "8", "0", " ", "--", " ", "S", "P">>),
     Txt(<<"c", "e", "p", ",", " ", "k", "m", " ", "1", "2">>)}
TierSamples == {"AAA", "AA", "A", "B", "C", "Indefinido", ""}

FnRest == <<variant, source, pc, exc, ui, cols, mapping, params, cs, ft, fetched,
            pages, top, shown>>

\* Each behaviour applies one function to one argument drawn from the samples.
InitFn ==
    /\ variant = "functions"
    /\ source = Source("A", 0, 0)
    /\ InitCommon

CallPotenciaLabel == \E d \in DemandSamples :
    /\ fn = "none"
    /\ fn' = "potencia_label"
    /\ arg' = d
    /\ out' = [tier |-> potencia_label(d)]
    /\ UNCHANGED FnRest

CallPot == \E d \in DemandSamples \cup {None, NaN} :
    /\ fn = "none"
    /\ fn' = "pot"
    /\ arg' = d
    /\ out' = [tier |-> pot(d)]
    /\ UNCHANGED FnRest

CallEnrichBase == \E df \in FnBatches, m \in MappingChoices(FnCols, auto_mapping(FnCols)) :
    /\ fn = "none"
    /\ fn' = "enrich_base"
    /\ arg' = [df |-> df, m |-> m]
    /\ out' \in enrich_base_outcomes(df, m.demand, m.lat, m.lon, m.mun)
    /\ UNCHANGED FnRest

\* fetch_dataset lines 105-106 on the records ckan_sql returned
CallNormalizeDf == \E df \in FnSqlBatches :
    /\ fn = "none"
    /\ fn' = "normalize_df"
    /\ arg' = [df |-> df]
    /\ out' = [raised |-> normalize_df(df).raised,
               rows |-> add_derived(normalize_df(df).rows)]
    /\ UNCHANGED FnRest

CallCalcScore == \E d \in DemandSamples \cup {NaN}, t \in TierSamples, a \in AddressSamples :
    /\ fn = "none"
    /\ fn' = "calc_score"
    /\ arg' = [Demanda_kW |-> d, Potencial |-> t, Endereco |-> a]
    /\ out' = calc_score(<<[Demanda_kW |-> d, Potencial |-> t, Endereco |-> a]>>)[1]
    /\ UNCHANGED FnRest

\* pick on the column lists of up to MaxCols names, some spelled in several
\* cases, and on the four candidate lists of the script and two more
PickNames == {"_id", "DEM_CONT", "dem_cont", "dem", "LAT"}
MaxCols == 3
ColLists == UNION {[1..n -> PickNames] : n \in 0..MaxCols}
CandLists == {DEMAND_CANDS, LAT_CANDS, LON_CANDS, MUN_CANDS, <<>>, <<"LAT", "dem">>}

CallPick == \E c \in ColLists, cands \in CandLists :
    /\ fn = "none"
    /\ fn' = "pick"
    /\ arg' = [cols |-> c, cands |-> cands]
    /\ out' = [col |-> pick(c, cands)]
    /\ UNCHANGED FnRest

NextFn ==
    \/ CallPotenciaLabel \/ CallPot \/ CallEnrichBase \/ CallNormalizeDf
    \/ CallCalcScore \/ CallPick

SpecFn == InitFn /\ [][NextFn]_vars

\* ================================================================ claims
PagedReturned == variant = "paged" /\ cs.pc = "ret"

\* C1: one ckan_search call never issues more than 4 HTTP requests, and a
\* call whose first 3 attempts failed and whose 4th succeeded has issued
\* exactly 4 requests and returns the records of that 4th answer.
C1_FourAttempts ==
    /\ cs.calls <= 4
    /\ (PagedReturned /\ cs.ok /\ cs.i = 3) =>
           /\ cs.calls = 4
           /\ cs.ret = Page(source, cs.limit, cs.offset)

\* C1 (case): three 503 answers, then the 4th request succeeds with records
C1_ThreeFailuresThenSuccess ==
    /\ PagedReturned /\ cs.ok /\ cs.i = 3 /\ cs.calls = 4
    /\ cs.last = [k |-> "status", code |-> 503]
    /\ cs.ret # <<>>

\* C2 (as claimed, for both clients): a call all of whose attempts failed
\* hands its caller an empty result with a diagnostic, and no exception leaves
\* the client, fetch_top or fetch_dataset.
C2_FailuresAbsorbed ==
    /\ (PagedReturned /\ ~cs.ok) =>
           cs.ret = <<>> /\ "ckan_fail" \in ui /\ cs.diag # NoLast
    /\ exc \notin {"HTTPError", "JSONDecodeError", "RuntimeError"}

\* C2, the half that holds: the paged client ckan_search absorbs every failure.
C2_PagedClientAbsorbs ==
    variant = "paged" =>
        /\ (cs.pc = "ret" /\ ~cs.ok) =>
               cs.ret = <<>> /\ "ckan_fail" \in ui /\ cs.diag # NoLast /\ cs.calls = 4
        /\ exc \notin {"HTTPError", "JSONDecodeError", "RuntimeError"}

RowIsNumeric(r) == IsNum(r.Demanda_kW) /\ IsNum(r.Latitude) /\ IsNum(r.Longitude)

\* C3 (as claimed, for both normalizers): the normalizer never raises on a
\* batch, and every row of its output has a numeric demand, latitude and
\* longitude.
C3_OutputIsNumeric ==
    fn \in {"enrich_base", "normalize_df"} =>
        /\ ~out.raised
        /\ \A i \in 1..Len(out.rows) : RowIsNumeric(out.rows[i])

\* C3, what holds of enrich_base: the rows it returns are numeric.
C3_EnrichBaseRowsNumeric ==
    fn = "enrich_base" => \A i \in 1..Len(out.rows) : RowIsNumeric(out.rows[i])

RECURSIVE Retainable(_)
Retainable(rows) ==
    IF rows = <<>> THEN <<>>
    ELSE min_kw_filter(
             enrich_base(<<rows[1]>>, mapping.demand, mapping.lat, mapping.lon,
                         mapping.mun).rows,
             params.min_kw) \o Retainable(Tail(rows))

Demands(rows) == {rows[i].Demanda_kW : i \in 1..Len(rows)}
DistinctDemands(rows) == Cardinality(Demands(rows)) = Len(rows)
StrictlyDescending(rows) ==
    \A i \in 1..(Len(rows) - 1) : NumGT(rows[i].Demanda_kW, rows[i + 1].Demanda_kW)

TopNOf(result, candidates, n) ==
    (DistinctDemands(candidates) /\ Len(candidates) >= n) =>
        /\ Len(result) = n
        /\ StrictlyDescending(result)
        /\ \A d \in Demands(result), c \in Demands(candidates) \ Demands(result) :
               NumGE(d, c)

\* C4 (as claimed): whenever at least top_n records of the first max_chunks
\* pages pass normalization and the min_kw filter, and their demands are
\* distinct, fetch_top returns exactly top_n records, strictly descending, each
\* at least as large as every such record it does not return.
C4_TopNOfAllPages ==
    (variant = "paged" /\ pc = "fetched") =>
        TopNOf(top, Retainable(Page(source, params.chunk * params.max_chunks, 0)),
               params.top_n)

\* C4 (amended): the same, of the records retained from the pages the run
\* fetched before it stopped (fetch_top's accumulated parts).
C4_TopNOfPool ==
    (variant = "paged" /\ pc = "fetched") => TopNOf(top, ft.parts, params.top_n)

\* C4 (case): the over-fetch stop left a page unread, and the top 1 of 10 retained
\* records was returned
C4_TopNAfterEarlyStop ==
    /\ variant = "paged" /\ pc = "fetched"
    /\ params.top_n = 1 /\ Len(ft.parts) = 10 /\ DistinctDemands(ft.parts)
    /\ Len(fetched) < params.max_chunks
    /\ Len(top) = 1 /\ top[1].Demanda_kW = Whole(5000)

\* C5 (the loop rule alone): the i-th page fetch is at offset i * chunk, and
\* page i + 1 is fetched iff i + 1 < max_chunks, page i had a raw record and
\* fewer than top_n * 10 records are retained.
C5_LoopRule ==
    variant = "paged" =>
        /\ \A i \in 1..Len(fetched) : fetched[i] = (i - 1) * params.chunk
        /\ Len(fetched) <= params.max_chunks
        /\ \A j \in 1..Len(pages) :
               (j < Len(fetched)) <=>
                   /\ j < params.max_chunks
                   /\ pages[j].raw > 0
                   /\ pages[j].retained < params.top_n * 10

\* C5 (as claimed): the i-th page fetch is at offset i * chunk; page i + 1 is
\* fetched iff i + 1 < max_chunks, page i had a raw record and fewer than
\* top_n * 10 records are retained; and the run never ends in an error.
C5_PageLoop ==
    /\ C5_LoopRule
    /\ variant = "paged" => pc # "crashed"

AtLeast(d, n) == d.m >= n * Pow10(d.e)
Ladder(d) ==
    IF AtLeast(d, 5000) THEN "AAA" ELSE IF AtLeast(d, 2000) THEN "AA"
    ELSE IF AtLeast(d, 500) THEN "A" ELSE IF AtLeast(d, 100) THEN "B" ELSE "C"
TierRank == ("C" :> 1) @@ ("B" :> 2) @@ ("A" :> 3) @@ ("AA" :> 4) @@ ("AAA" :> 5)
Tiers == DOMAIN TierRank

\* C6: for a demand d >= 0 the tier is AAA from 5000, AA from 2000, A from
\* 500, B from 100, else C; a larger demand never has a lower tier; every
\* derived record's tier is one of the five.
C6_TierLadder ==
    /\ (fn \in {"potencia_label", "pot"} /\ IsNum(arg)) =>
           /\ out.tier = Ladder(arg)
           /\ \A d \in DemandSamples :
                  NumGE(d, arg) =>
                      /\ TierRank[potencia_label(d)] >= TierRank[out.tier]
                      /\ TierRank[pot(d)] >= TierRank[out.tier]
    /\ fn \in {"enrich_base", "normalize_df"} =>
           \A i \in 1..Len(out.rows) : out.rows[i].Potencial \in Tiers

\* C6 (case): potencia_label at the inclusive bound of AAA
C6_TierAtThreshold ==
    fn = "potencia_label" /\ arg = Whole(5000) /\ out.tier = "AAA"

TierIs(d, t) == (fn = "potencia_label" /\ arg = d) => out.tier = t

\* C7 (as claimed): tier(4999) = A, tier(5000) = AAA, tier(1999.9) = A,
\* tier(2000) = AA, tier(499) = B, tier(500) = A, tier(99) = C, tier(100) = B.
C7_BoundaryTiersAsClaimed ==
    /\ TierIs(Whole(4999), "A") /\ TierIs(Whole(5000), "AAA")
    /\ TierIs(Num(19999, 1), "A") /\ TierIs(Whole(2000), "AA")
    /\ TierIs(Whole(499), "B") /\ TierIs(Whole(500), "A")
    /\ TierIs(Whole(99), "C") /\ TierIs(Whole(100), "B")

\* C7 (amended): the same points, with tier(4999) = AA.
C7_BoundaryTiers ==
    /\ TierIs(Whole(4999), "AA") /\ TierIs(Whole(5000), "AAA")
    /\ TierIs(Num(19999, 1), "A") /\ TierIs(Whole(2000), "AA")
    /\ TierIs(Whole(499), "B") /\ TierIs(Whole(500), "A")
    /\ TierIs(Whole(99), "C") /\ TierIs(Whole(100), "B")

\* C7 (case): potencia_label applied to 4999
C7_TierOf4999 == fn = "potencia_label" /\ arg = Whole(4999) /\ out.tier = "AA"

RegionOf(r, mun_col) ==
    LET v == IF mun_col = NoCol THEN NaN ELSE to_numeric(r[mun_col])
        prefix == IF IsNum(v) THEN v.m \div (100000 * Pow10(v.e)) ELSE 0
    IN IF prefix \in DOMAIN UF_BY_IBGE_UF_CODE THEN UF_BY_IBGE_UF_CODE[prefix]
       ELSE "??"

\* C8: a retained record's region is the table entry of floor(code / 100000)
\* when the municipality column is mapped, the code is a number and the
\* prefix is in the table, and "??" otherwise; 4106902 is PR, 3550308 is SP.
C8_Region ==
    fn = "enrich_base" =>
        \A i \in 1..Len(out.rows) :
            LET r == out.rows[i] IN
            /\ r.UF = RegionOf(r, arg.m.mun)
            /\ (arg.m.mun = "MUN" /\ r["MUN"] = MUN_TXTS[1]) => r.UF = "PR"
            /\ (arg.m.mun = "MUN" /\ r["MUN"] = MUN_TXTS[2]) => r.UF = "SP"
            /\ (arg.m.mun = NoCol \/ r["MUN"] \in {None, Txt(<<"0">>)}) => r.UF = "??"

\* C8 (case): enrich_base keeps one record of municipality 4106902
C8_CuritibaIsPR ==
    /\ fn = "enrich_base" /\ arg.m.mun = "MUN" /\ Len(out.rows) = 1
    /\ out.rows[1]["MUN"] = MUN_TXTS[1] /\ out.rows[1].UF = "PR"

Within(x, lo, hi) == NumGE(x, Whole(lo)) /\ NumGE(Whole(hi), x)

\* C9: for a demand >= 0, any tier and any address, the score is within
\* 0..100, its demand part within 0..70, its tier part within 0..20 and its
\* address part within 0..10.
C9_ScoreBounds ==
    fn = "calc_score" =>
        /\ Within(out.Score_Alexandria, 0, 100)
        /\ Within(out.Score_Demanda, 0, 70)
        /\ Within(out.Score_Potencial, 0, 20)
        /\ Within(out.Score_Acionavel, 0, 10)

\* C9 (case): calc_score on a demand above the clip, with every component full
C9_FullScore ==
    /\ fn = "calc_score" /\ arg.Demanda_kW = Whole(2000000)
    /\ out.Score_Alexandria = Whole(100) /\ out.Score_Demanda = Whole(70)

\* C10: when the probe yields no columns the run stops with the "no columns"
\* error, no mapping is built and fetch_top issues no page fetch.
C10_NoColumnsStops ==
    (variant = "paged" /\ pc \notin {"start", "probing"} /\ cols = <<>>) =>
        /\ pc = "stopped"
        /\ "no_columns" \in ui
        /\ mapping = NoMapping
        /\ fetched = <<>>

\* C10 (case): the source has records, the probe fetch failed 4 times, the
\* script stopped
C10_ProbeFailedStopped ==
    /\ variant = "paged" /\ pc = "stopped" /\ cols = <<>>
    /\ "ckan_fail" \in ui /\ "no_columns" \in ui /\ source.rows # <<>>

SameIgnoringCase(a, b) == LowerName[a] = LowerName[b]
NoCandidateMatches(c, cands) ==
    \A i \in 1..Len(c), j \in 1..Len(cands) : ~SameIgnoringCase(c[i], cands[j])
ROLE_CANDS ==
    [demand |-> DEMAND_CANDS, lat |-> LAT_CANDS, lon |-> LON_CANDS, mun |-> MUN_CANDS]

\* C11 (as claimed): in the automatically resolved mapping every role is one
\* probed column or unmapped, and a role none of whose candidates matches a
\* probed column ignoring case is unmapped.
C11_UnmatchedRoleUnmapped ==
    (variant = "paged" /\ pc = "sidebar") =>
        \A role \in DOMAIN ROLE_CANDS :
            /\ mapping[role] = NoCol \/ \E i \in 1..Len(cols) : cols[i] = mapping[role]
            /\ NoCandidateMatches(cols, ROLE_CANDS[role]) => mapping[role] = NoCol

\* C11, what holds: the municipality role is unmapped when no candidate
\* matches, and every role that has a match is mapped to a column matching it.
C11_MunicipalityUnmapped ==
    (variant = "paged" /\ pc = "sidebar") =>
        /\ NoCandidateMatches(cols, MUN_CANDS) => mapping.mun = NoCol
        /\ \A role \in DOMAIN ROLE_CANDS :
               ~NoCandidateMatches(cols, ROLE_CANDS[role]) =>
                   \E j \in 1..Len(ROLE_CANDS[role]) :
                       SameIgnoringCase(mapping[role], ROLE_CANDS[role][j])

Rows(df) == {df[i] : i \in 1..Len(df)}
ScoreSortedUnfiltered ==
    /\ variant = "paged" /\ pc = "done"
    /\ shown.sort_by = "Score Alexandria" /\ shown.filters = NoFilters
NonIncreasing(df, key) ==
    \A i \in 1..(Len(df) - 1) : NumGE(df[i][key], df[i + 1][key])
Smaller(a, b) == IF a < b THEN a ELSE b

RECURSIVE Power(_, _)
Power(b, k) == IF k = 0 THEN 1 ELSE b * Power(b, k - 1)

\* C13 (as claimed): for some base, the delay slept before retry number k of
\* a call is min(8, base ** k), for every retry of the call (k counted from
\* 1 or from 0).
C13_ExponentialBackoff ==
    variant = "paged" =>
        \E base \in 1..8, first \in {0, 1} :
            \A k \in 1..Len(cs.sleeps) :
                cs.sleeps[k] = Smaller(8, Power(base, k - 1 + first))

\* C13, what holds: the delay after the k-th failed attempt is 2 * k seconds,
\* at most 8 (the 4th failed attempt is followed by 8 seconds and no retry).
C13_LinearBackoff ==
    variant = "paged" =>
        /\ Len(cs.sleeps) <= 4
        /\ \A k \in 1..Len(cs.sleeps) : cs.sleeps[k] = 2 * k /\ cs.sleeps[k] <= 8

\* C14: pick returns None when no candidate equals a column ignoring case;
\* otherwise it returns a column that equals, ignoring case, the earliest
\* candidate that has such a match.
C14_PickByCandidateOrder ==
    fn = "pick" =>
        LET c == arg.cols
            cands == arg.cands
            matched == {i \in 1..Len(cands) :
                            \E j \in 1..Len(c) : SameIgnoringCase(c[j], cands[i])}
        IN IF matched = {} THEN out.col = NoCol
           ELSE \E f \in matched :
                    /\ \A i \in matched : f <= i
                    /\ \E j \in 1..Len(c) :
                           c[j] = out.col /\ SameIgnoringCase(c[j], cands[f])

\* C14 (case): the first column matches a later candidate, the second column
\* the earliest one, and pick returns the second column
C14_CandidateOrderDecides ==
    /\ fn = "pick" /\ arg.cols = <<"dem", "DEM_CONT">> /\ arg.cands = DEMAND_CANDS
    /\ out.col = "DEM_CONT"

IsTopNByDemand(result, pool, n) ==
    /\ Len(result) = Smaller(n, Len(pool))
    /\ Rows(result) \subseteq Rows(pool)
    /\ NonIncreasing(result, "Demanda_kW")
    /\ \A p \in Rows(pool) \ Rows(result), r \in Rows(result) :
           NumGE(r.Demanda_kW, p.Demanda_kW)

PageFetchExhausted == variant = "paged" /\ pc = "fetching" /\ cs.pc = "exhausted"
PageFetchFailed == variant = "paged" /\ pc = "fetching" /\ cs.pc = "ret" /\ ~cs.ok

\* C15: a page fetch of fetch_top that ran out of attempts raises nothing and
\* leaves a diagnostic; fetch_top then ends the loop as on an empty page: it
\* fetches no further page and returns the top_n by demand, descending, of
\* the records retained from the earlier pages (nothing if there were none).
C15_FailedPageEndsRun ==
    [][ /\ PageFetchExhausted =>
               PageFetchFailed' /\ exc' = "none" /\ "ckan_fail" \in ui'
        /\ PageFetchFailed =>
               /\ pc' = "fetched" /\ exc' = "none" /\ "ckan_fail" \in ui'
               /\ fetched' = fetched /\ ft' = ft
               /\ IsTopNByDemand(top', ft.parts, params.top_n)
        /\ pc \in {"fetched", "done", "stopped_empty"} => fetched' = fetched
      ]_vars

\* C15 (case): the first page was retained, the fetch of the second page of a
\* source that has records there failed, and the run returned records
C15_SecondPageFailed ==
    /\ variant = "paged" /\ pc = "fetched" /\ "ckan_fail" \in ui /\ exc = "none"
    /\ Len(fetched) = 2 /\ Len(source.rows) > fetched[2]
    /\ pages[2].raw = 0 /\ top # <<>>

====
